---- MODULE Spec2Model ----
(***************************************************************************)
(* Model of coursetester.py: TimeSlot, Course, CourseRegistration and the   *)
(* two time conversions.                                                    *)
(*                                                                          *)
(* A time of day is counted in whole minutes (hour * 60 + minute) where the *)
(* program keeps the float hour + minute / 60.  A Course object is          *)
(* identified by the place it holds in self.courses: the catalog is         *)
(* append-only and every Course is appended exactly once, so the pair       *)
(* (index of the category, index within the category) is the reference      *)
(* that self.schedule holds.                                                *)
(***************************************************************************)
EXTENDS Integers, Sequences, FiniteSets, TLC

\* ------------------------------------------------------------------ bounds
MaxAdds == 2        \* records the store may hold (successful add_course calls)
MaxRuns == 2        \* generate_schedule runs per session
MaxTime == 3        \* largest time value in the TimeSlot specification
MaxHour == 13       \* largest hour of a literal in the time specification
MaxMinute == 60     \* largest minute of a literal in the time specification

VARIABLES
    courses,     \* self.courses: sequence of [category, offerings], in insertion order
    schedule,    \* self.schedule: sequence of references [ci, oi] into courses
    file,        \* courses.txt: sequence of lines (<<>> when the file is missing)
    pc,          \* "idle": the event loop waits; "ask": askyesnocancel is open
    pos,         \* the reference of the course the open dialog asks about
    runs,        \* generate_schedule runs of this session
    lastOp,      \* history: the handler (or the answer) that ran last
    trail,       \* history: the courses this run came to, in walk order, see Step
    fresh,       \* history: nothing but add_course has touched self.courses
    prev,        \* history: the schedule the previous run left, see Generate
    inRow,       \* history: every answer of the last run was ACCEPT and nothing was added since
    slotA, slotB, conflict,     \* TimeSlot specification: two slots and the verdict
    literal, converted          \* time specification: a literal and the conversion's result

vars == <<courses, schedule, file, pc, pos, runs, lastOp, trail, fresh, prev, inRow,
          slotA, slotB, conflict, literal, converted>>

mainVars == <<courses, schedule, file, pc, pos, runs, lastOp, trail, fresh, prev, inRow>>
slotVars == <<slotA, slotB, conflict>>
timeVars == <<literal, converted>>

\* ------------------------------------------------------------ time literals
\* A literal "H:MMam" is [hour, minute, sep, suffix]; sep is the character
\* between hour and minute, suffix the letters that follow ("" when none).
Lit(h, m, sfx) == [hour |-> h, minute |-> m, sep |-> ":", suffix |-> sfx]

Raised == [ok |-> FALSE, value |-> 0]
Returned(v) == [ok |-> TRUE, value |-> v]

\* str.lower() on the suffix.
Lower(sfx) == IF sfx = "AM" THEN "am" ELSE IF sfx = "PM" THEN "pm" ELSE sfx

\* map(int, time_str.split(":")) unpacked into hour, minute: a ValueError
\* unless the text is two integers around one colon.
SplitsInTwo(lit) == lit.sep = ":"

convert_time_to_float(lit) ==
    LET s == Lower(lit.suffix) IN
    IF s = "am"
      THEN IF ~SplitsInTwo(lit) THEN Raised
           ELSE Returned((IF lit.hour = 12 THEN 0 ELSE lit.hour) * 60 + lit.minute)
    ELSE IF s = "pm"
      THEN IF ~SplitsInTwo(lit) THEN Raised
           ELSE Returned((IF lit.hour # 12 THEN lit.hour + 12 ELSE lit.hour) * 60 + lit.minute)
    ELSE Raised

\* int((time_float % 1) * 60) in IEEE doubles: the product falls just below
\* the minute for some (hour, minute), and int() then loses one minute.
\* Table for the minutes 0, 15, 20, 30, 45 and the hours 0..25: only minute
\* 20 is affected, at these hours.
LossyHours20 == {1, 4, 5, 6, 7, 16, 17, 18, 19, 20, 21, 22, 23, 24, 25}
TruncatedMinute(hour, minute) ==
    IF minute = 20 /\ hour \in LossyHours20 THEN 19 ELSE minute

format_time(t) ==
    LET hour == t \div 60
        minute == TruncatedMinute(hour, t % 60)
        am_pm == IF hour < 12 THEN "AM" ELSE "PM"
        h12 == IF hour = 0 THEN 12 ELSE IF hour > 12 THEN hour - 12 ELSE hour
    IN Lit(h12, minute, am_pm)

\* ---------------------------------------------------------------- TimeSlot
TimeSlot(days, start_time, end_time) ==
    [days |-> days, start_time |-> start_time, end_time |-> end_time]

\* `day in other.days` for a one-character day.
DayIn(day, days) == \E j \in 1..Len(days) : days[j] = day

\* Mutant: the two comparisons are strict, so slots that touch conflict.
RECURSIVE SlotLoop_Closed(_, _, _)
SlotLoop_Closed(self, other, i) ==
    IF i > Len(self.days) THEN FALSE
    ELSE IF DayIn(self.days[i], other.days)
            /\ ~(self.end_time < other.start_time \/ self.start_time > other.end_time)
      THEN TRUE
    ELSE SlotLoop_Closed(self, other, i + 1)

TimeSlot_has_time_conflict_Closed(self, other) == SlotLoop_Closed(self, other, 1)

\* for day in self.days, from the i-th day on.
RECURSIVE SlotLoop(_, _, _)
SlotLoop(self, other, i) ==
    IF i > Len(self.days) THEN FALSE
    ELSE IF DayIn(self.days[i], other.days)
            /\ ~(self.end_time <= other.start_time \/ self.start_time >= other.end_time)
      THEN TRUE
    ELSE SlotLoop(self, other, i + 1)

TimeSlot_has_time_conflict(self, other) == SlotLoop(self, other, 1)

\* ------------------------------------------------------------------ Course
Course(course_number) == [course_number |-> course_number, time_slots |-> <<>>]

add_time_slot(course, days, start_time, end_time) ==
    [course EXCEPT !.time_slots = Append(@, TimeSlot(days, start_time, end_time))]

RECURSIVE CourseLoop(_, _, _, _)
CourseLoop(self, other, i, j) ==
    IF i > Len(self.time_slots) THEN FALSE
    ELSE IF j > Len(other.time_slots) THEN CourseLoop(self, other, i + 1, 1)
    ELSE IF TimeSlot_has_time_conflict(self.time_slots[i], other.time_slots[j]) THEN TRUE
    ELSE CourseLoop(self, other, i, j + 1)

Course_has_time_conflict(self, other) == CourseLoop(self, other, 1, 1)

\* ----------------------------------------------------------------- catalog
HasCategory(cs, category) == \E i \in 1..Len(cs) : cs[i].category = category
CategoryIndex(cs, category) == CHOOSE i \in 1..Len(cs) : cs[i].category = category

\* self.courses[category] = []
NewCategory(cs, category) == Append(cs, [category |-> category, offerings |-> <<>>])

\* self.courses[category].append(course)
AppendCourse(cs, category, course) ==
    [cs EXCEPT ![CategoryIndex(cs, category)].offerings = Append(@, course)]

Ref(ci, oi) == [ci |-> ci, oi |-> oi]
NoRef == Ref(0, 0)
Deref(cs, ref) == cs[ref.ci].offerings[ref.oi]
Key(cs, ref) == <<cs[ref.ci].category, Deref(cs, ref).course_number>>

\* ------------------------------------------------------------- courses.txt
\* A line of the file: the blanks it starts with (indent), then its text.
\* tag is the text up to and including the first ":" of a header line and ""
\* otherwise; val is what follows ": "; days and times are the fields of an
\* interval line.
CategoryLine(category) ==
    [indent |-> 0, tag |-> "Category:", val |-> category, days |-> <<>>, times |-> <<>>]
NumberLine(course_number) ==
    [indent |-> 0, tag |-> "Course Number:", val |-> course_number, days |-> <<>>, times |-> <<>>]
SlotLine(slot) ==
    [indent |-> 1, tag |-> "", val |-> "", days |-> slot.days,
     times |-> <<format_time(slot.start_time), format_time(slot.end_time)>>]
BlankLine ==
    [indent |-> 0, tag |-> "", val |-> "", days |-> <<>>, times |-> <<>>]

RECURSIVE SlotLines(_, _)
SlotLines(time_slots, i) ==
    IF i > Len(time_slots) THEN <<>>
    ELSE <<SlotLine(time_slots[i])>> \o SlotLines(time_slots, i + 1)

\* The record add_course appends to the file.
RecordLines(category, course) ==
    <<CategoryLine(category), NumberLine(course.course_number)>>
        \o SlotLines(course.time_slots, 1) \o <<BlankLine>>

\* line.strip(): the leading blanks (and the newline) go.
Strip(line) == [line EXCEPT !.indent = 0]

NoCategory == ""
NoCourse == Course("")

\* The body of `for line in lines`, from line i on; category and course are
\* the loop's locals.
RECURSIVE LoadLines(_, _, _, _, _)
LoadLines(cs, lines, i, category, course) ==
    IF i > Len(lines) THEN cs
    ELSE LET line == Strip(lines[i]) IN
      IF line.tag = "Category:"
        THEN LoadLines(IF HasCategory(cs, line.val) THEN cs ELSE NewCategory(cs, line.val),
                       lines, i + 1, line.val, course)
      ELSE IF line.tag = "Course Number:"
        THEN LoadLines(cs, lines, i + 1, category, Course(line.val))
      ELSE IF line.indent > 0      \* line.startswith(" "), asked of the stripped line
        THEN LET start_time == convert_time_to_float(line.times[1]).value
                 end_time == convert_time_to_float(line.times[2]).value
             IN LoadLines(cs, lines, i + 1, category,
                          add_time_slot(course, Tail(line.days), start_time, end_time))
      ELSE IF line = BlankLine
        THEN LoadLines(AppendCourse(cs, category, course), lines, i + 1, category, course)
      ELSE LoadLines(cs, lines, i + 1, category, course)

\* A missing file (FileNotFoundError: pass) and an empty one load alike.
load_courses_from_file(cs, f) == LoadLines(cs, f, 1, NoCategory, NoCourse)

\* -------------------------------------------------------------- add_course
\* The "Days and Times" entry after split(", "): the (days, "start-end")
\* pairs in order, and whether an item is left over after the last pair
\* (days_times_list[i+1] is then an IndexError). The empty entry splits into
\* [""]: no pair, one item left over.
Entry(slots, dangling) == [slots |-> slots, dangling |-> dangling]
Pair(days, start, end) == [days |-> days, start |-> start, end |-> end]

NoError == "none"

\* The parsing loop of add_course, from pair i on.
RECURSIVE ParseLoop(_, _, _)
ParseLoop(entry, i, time_slots) ==
    IF i > Len(entry.slots)
      THEN IF entry.dangling THEN [error |-> "IndexError", time_slots |-> <<>>]
           ELSE [error |-> NoError, time_slots |-> time_slots]
    ELSE LET start_time == convert_time_to_float(entry.slots[i].start)
             end_time == convert_time_to_float(entry.slots[i].end)
         IN IF ~start_time.ok \/ ~end_time.ok
              THEN [error |-> "ValueError", time_slots |-> <<>>]
              ELSE ParseLoop(entry, i + 1,
                     Append(time_slots, <<entry.slots[i].days, start_time.value, end_time.value>>))

RECURSIVE AddSlots(_, _, _)
AddSlots(course, time_slots, i) ==
    IF i > Len(time_slots) THEN course
    ELSE AddSlots(add_time_slot(course, time_slots[i][1], time_slots[i][2], time_slots[i][3]),
                  time_slots, i + 1)

\* Mutant: the category is entered into the catalog before the entry is parsed.
add_course_CategoryFirst(cs, f, category, course_number, days_times) ==
    LET registered == IF HasCategory(cs, category) THEN cs ELSE NewCategory(cs, category)
        parsed == ParseLoop(days_times, 1, <<>>)
    IN IF parsed.error # NoError
         THEN [courses |-> registered, file |-> f, error |-> parsed.error]
         ELSE LET course == AddSlots(Course(course_number), parsed.time_slots, 1)
              IN [courses |-> AppendCourse(registered, category, course),
                  file |-> f \o RecordLines(category, course),
                  error |-> NoError]

\* add_course on the catalog cs and the file f: what both are afterwards, and
\* the exception that left the handler, if any.
add_course(cs, f, category, course_number, days_times) ==
    LET parsed == ParseLoop(days_times, 1, <<>>) IN
    IF parsed.error # NoError
      THEN [courses |-> cs, file |-> f, error |-> parsed.error]
      ELSE LET registered == IF HasCategory(cs, category) THEN cs ELSE NewCategory(cs, category)
               course == AddSlots(Course(course_number), parsed.time_slots, 1)
           IN [courses |-> AppendCourse(registered, category, course),
               file |-> f \o RecordLines(category, course),
               error |-> NoError]

\* ---------------------------------------------------- CourseRegistration
\* for scheduled_course in self.schedule, from the i-th on.
RECURSIVE ScheduleLoop(_, _, _, _)
ScheduleLoop(cs, sched, course, i) ==
    IF i > Len(sched) THEN FALSE
    ELSE IF Course_has_time_conflict(course, Deref(cs, sched[i])) THEN TRUE
    ELSE ScheduleLoop(cs, sched, course, i + 1)

\* Mutant: the loop passes over the first scheduled course.
has_conflict_with_schedule_SkipsFirst(cs, sched, course) == ScheduleLoop(cs, sched, course, 2)

has_conflict_with_schedule(cs, sched, course) == ScheduleLoop(cs, sched, course, 1)

\* An entry of the trail: a course the walk came to, and what became of it:
\* "skipped" (it conflicts with the schedule), "asked" (its dialog is open),
\* or the answer its dialog got.
Step(ref, what) == [ref |-> ref, what |-> what]
Answered(tr, response) == [tr EXCEPT ![Len(tr)].what = response]

\* The two loops of process_courses, resumed at course oi of category ci,
\* up to the next askyesnocancel or to the end of the categories. The
\* categories are list(self.courses.keys()) and the catalog does not change
\* while the walk runs, so `category in self.courses` holds for each.
\* display_schedule at the end, like pc.copy before a dialog, writes only
\* the text widget and the clipboard, which nothing here reads.
RECURSIVE Walk(_, _, _, _, _)
Walk(cs, sched, tr, ci, oi) ==
    IF ci > Len(cs)
      THEN [pc |-> "idle", pos |-> NoRef, schedule |-> sched, trail |-> tr]
    ELSE IF oi > Len(cs[ci].offerings)
      THEN Walk(cs, sched, tr, ci + 1, 1)
    ELSE IF has_conflict_with_schedule(cs, sched, cs[ci].offerings[oi])
      THEN Walk(cs, sched, Append(tr, Step(Ref(ci, oi), "skipped")), ci, oi + 1)
    ELSE [pc |-> "ask", pos |-> Ref(ci, oi), schedule |-> sched,
          trail |-> Append(tr, Step(Ref(ci, oi), "asked"))]

\* Mutant: None ends the category, not the walk.
answer_AbortBreaks(cs, sched, tr, at, response) ==
    IF response = "ABORT" THEN Walk(cs, sched, tr, at.ci + 1, 1)
    ELSE IF response = "ACCEPT" THEN Walk(cs, Append(sched, at), tr, at.ci + 1, 1)
    ELSE Walk(cs, sched, tr, at.ci, at.oi + 1)

\* Mutant: an accepted course does not end its category.
answer_NoBreak(cs, sched, tr, at, response) ==
    IF response = "ABORT"
      THEN [pc |-> "idle", pos |-> NoRef, schedule |-> sched, trail |-> tr]
    ELSE IF response = "ACCEPT" THEN Walk(cs, Append(sched, at), tr, at.ci, at.oi + 1)
    ELSE Walk(cs, sched, tr, at.ci, at.oi + 1)

\* process_courses from the answer of the dialog about the course `at`:
\* None returns, True appends and breaks, False continues.
answer(cs, sched, tr, at, response) ==
    IF response = "ABORT"
      THEN [pc |-> "idle", pos |-> NoRef, schedule |-> sched, trail |-> tr]
    ELSE IF response = "ACCEPT" THEN Walk(cs, Append(sched, at), tr, at.ci + 1, 1)
    ELSE Walk(cs, sched, tr, at.ci, at.oi + 1)

\* Mutant: self.schedule is not emptied.
generate_schedule_KeepsSchedule(cs, sched, f) ==
    LET loaded == load_courses_from_file(cs, f) IN
    [courses |-> loaded, walk |-> Walk(loaded, sched, <<>>, 1, 1)]

\* generate_schedule up to the first dialog.
generate_schedule(cs, sched, f) ==
    LET loaded == load_courses_from_file(cs, f) IN
    [courses |-> loaded, walk |-> Walk(loaded, <<>>, <<>>, 1, 1)]

\* ------------------------------------------------------------------ inputs
Mon9 == Pair(<<"M">>, Lit(9, 0, "am"), Lit(10, 0, "am"))
MonWed930 == Pair(<<"M", "W">>, Lit(9, 30, "AM"), Lit(10, 30, "am"))
TueThu420 == Pair(<<"T", "H">>, Lit(4, 20, "pm"), Lit(5, 0, "PM"))
TueBackwards == Pair(<<"T">>, Lit(10, 0, "am"), Lit(9, 0, "am"))
NoSuffix == Pair(<<"T">>, Lit(9, 0, ""), Lit(10, 0, "am"))

Form(category, course_number, days_times) ==
    [category |-> category, course_number |-> course_number, days_times |-> days_times]

\* What the three entries may hold when "Add Course" is pressed. The first
\* five parse; the last three raise.
Forms ==
    { Form("Math", "101", Entry(<<Mon9>>, FALSE)),
      Form("Math", "102", Entry(<<TueThu420, MonWed930>>, FALSE)),
      Form("Art", "201", Entry(<<TueThu420>>, FALSE)),
      Form("Lab", "101", Entry(<<Mon9>>, FALSE)),
      Form("Lab", "301", Entry(<<TueBackwards>>, FALSE)),
      Form("Art", "201", Entry(<<Mon9, NoSuffix>>, FALSE)),
      Form("Lab", "301", Entry(<<Mon9>>, TRUE)),
      Form("Math", "101", Entry(<<>>, TRUE)) }

\* --------------------------------------------------------------- the program
NoSlot == TimeSlot(<<>>, 0, 0)
NoLiteral == Lit(0, 0, "")
NoPrev == <<<<"none", "none">>>>
Pending == [ok |-> FALSE, value |-> -1]

ScheduleKeys(cs, sched) == [i \in 1..Len(sched) |-> Key(cs, sched[i])]

\* Records in the file: one blank line ends each.
RecordCount(f) == Cardinality({i \in 1..Len(f) : f[i] = BlankLine})

\* After CourseRegistration(root) with no courses.txt.
Init ==
    /\ courses = <<>>
    /\ schedule = <<>>
    /\ file = <<>>
    /\ pc = "idle"
    /\ pos = NoRef
    /\ runs = 0
    /\ lastOp = "start"
    /\ trail = <<>>
    /\ fresh = TRUE
    /\ prev = NoPrev
    /\ inRow = FALSE
    /\ slotA = NoSlot /\ slotB = NoSlot /\ conflict = "pending"
    /\ literal = NoLiteral /\ converted = Pending

\* The "Add Course" button. The dialogs of a walk are modal, so the buttons
\* act only while no dialog is open. An exception leaves the handler and Tk
\* reports it; the program goes on.
AddCourse ==
    /\ pc = "idle"
    /\ RecordCount(file) < MaxAdds
    /\ \E form \in Forms :
         LET r == add_course(courses, file, form.category, form.course_number,
                             form.days_times) IN
         /\ courses' = r.courses
         /\ file' = r.file
         /\ lastOp' = IF r.error = NoError THEN "add_course" ELSE r.error
         /\ inRow' = (inRow /\ r.error # NoError)
    /\ UNCHANGED <<schedule, pc, pos, runs, trail, fresh, prev, slotVars, timeVars>>

\* The "Generate Schedule" button. prev keeps what the run before left when
\* that run was answered ACCEPT throughout and ended, with no course added
\* since.
Generate ==
    /\ pc = "idle"
    /\ runs < MaxRuns
    /\ LET r == generate_schedule(courses, schedule, file) IN
         /\ courses' = r.courses
         /\ schedule' = r.walk.schedule
         /\ pc' = r.walk.pc
         /\ pos' = r.walk.pos
         /\ trail' = r.walk.trail
    /\ runs' = runs + 1
    /\ prev' = IF inRow THEN ScheduleKeys(courses, schedule) ELSE NoPrev
    /\ inRow' = TRUE
    /\ lastOp' = "generate_schedule"
    /\ fresh' = FALSE
    /\ UNCHANGED <<file, slotVars, timeVars>>

\* The user answers the dialog: Yes, No or Cancel.
Answer ==
    /\ pc = "ask"
    /\ \E response \in {"ACCEPT", "REJECT", "ABORT"} :
         LET r == answer(courses, schedule, Answered(trail, response), pos, response) IN
         /\ schedule' = r.schedule
         /\ pc' = r.pc
         /\ pos' = r.pos
         /\ trail' = r.trail
         /\ inRow' = (inRow /\ response = "ACCEPT")
         /\ lastOp' = response
    /\ UNCHANGED <<courses, file, runs, fresh, prev, slotVars, timeVars>>

\* The window is closed and the program started again: __init__ over the
\* file as it is.
Restart ==
    /\ pc = "idle"
    /\ lastOp # "start"
    /\ courses' = load_courses_from_file(<<>>, file)
    /\ schedule' = <<>>
    /\ pos' = NoRef
    /\ runs' = 0
    /\ trail' = <<>>
    /\ fresh' = FALSE
    /\ prev' = NoPrev
    /\ inRow' = FALSE
    /\ lastOp' = "start"
    /\ UNCHANGED <<file, pc, slotVars, timeVars>>

Next == AddCourse \/ Generate \/ Answer \/ Restart

Spec == Init /\ [][Next]_vars

\* ------------------------------------------ TimeSlot.has_time_conflict alone
DayStrings == {<<>>, <<"M">>, <<"T">>, <<"M", "W">>, <<"T", "T", "H">>, <<"W", "M">>}
Times == 0..MaxTime
TimeSlots ==
    {TimeSlot(d, s, e) : d \in DayStrings, s \in Times, e \in Times}

InitSlot ==
    /\ courses = <<>> /\ schedule = <<>> /\ file = <<>> /\ pc = "idle" /\ pos = NoRef
    /\ runs = 0 /\ lastOp = "start" /\ trail = <<>> /\ fresh = TRUE
    /\ prev = NoPrev /\ inRow = FALSE
    /\ slotA \in TimeSlots /\ slotB \in TimeSlots /\ conflict = "pending"
    /\ literal = NoLiteral /\ converted = Pending

CallHasTimeConflict ==
    /\ conflict = "pending"
    /\ conflict' = IF TimeSlot_has_time_conflict(slotA, slotB) THEN "True" ELSE "False"
    /\ UNCHANGED <<mainVars, slotA, slotB, timeVars>>

NextSlot == CallHasTimeConflict

SpecSlot == InitSlot /\ [][NextSlot]_vars

\* ---------------------------------------------- convert_time_to_float alone
Literals ==
    [hour : 0..MaxHour, minute : 0..MaxMinute, sep : {":", "."},
     suffix : {"am", "pm", "AM", "PM", ""}]

InitTime ==
    /\ courses = <<>> /\ schedule = <<>> /\ file = <<>> /\ pc = "idle" /\ pos = NoRef
    /\ runs = 0 /\ lastOp = "start" /\ trail = <<>> /\ fresh = TRUE
    /\ prev = NoPrev /\ inRow = FALSE
    /\ slotA = NoSlot /\ slotB = NoSlot /\ conflict = "pending"
    /\ literal \in Literals /\ converted = Pending

CallConvert ==
    /\ converted = Pending
    /\ converted' = convert_time_to_float(literal)
    /\ UNCHANGED <<mainVars, slotVars, literal>>

NextTime == CallConvert

SpecTime == InitTime /\ [][NextTime]_vars

\* ================================================================== claims
DaySet(days) == {days[i] : i \in 1..Len(days)}
WellFormed(slot) == slot.start_time < slot.end_time
\* Some time lies in both half-open ranges.
RangesMeet(a, b) ==
    \E t \in Times : /\ a.start_time <= t /\ t < a.end_time
                     /\ b.start_time <= t /\ t < b.end_time

\* C1: for well-formed slots a and b, has_time_conflict(a, b) is true exactly
\* when a and b share a day and some time lies in both [start, end) ranges;
\* so slots that only touch, and slots on disjoint days, do not conflict.
C1_ConflictIffSharedDayAndOverlap ==
    (conflict # "pending" /\ WellFormed(slotA) /\ WellFormed(slotB))
        => ((conflict = "True")
              <=> (DaySet(slotA.days) \cap DaySet(slotB.days) # {} /\ RangesMeet(slotA, slotB)))

C1_TouchingSlotsWitness ==
    /\ conflict = "False"
    /\ WellFormed(slotA) /\ WellFormed(slotB)
    /\ DaySet(slotA.days) \cap DaySet(slotB.days) # {}
    /\ slotA.end_time = slotB.start_time

Scheduled(i) == Deref(courses, schedule[i])
Skipped == {i \in 1..Len(trail) : trail[i].what = "skipped"}

\* C2: the course a dialog asks about conflicts with no course of the
\* schedule, and no two courses of the schedule conflict, in every state of
\* a walk and after it, however it ended.
C2_ScheduleConflictFree ==
    /\ pc = "ask" =>
         \A i \in 1..Len(schedule) :
            ~Course_has_time_conflict(Deref(courses, pos), Scheduled(i))
    /\ \A i, j \in 1..Len(schedule) :
         i # j => ~Course_has_time_conflict(Scheduled(i), Scheduled(j))

C2_SkippedThenAcceptedWitness ==
    /\ Len(schedule) = 2
    /\ Skipped # {}
    /\ Scheduled(1).time_slots # <<>>

AcceptedRefs(tr) ==
    LET acc == SelectSeq(tr, LAMBDA st : st.what = "ACCEPT")
    IN [i \in 1..Len(acc) |-> acc[i].ref]

\* C3: after the answer ABORT the walk has stopped: no dialog is open, the
\* aborted course is the last one the walk came to, and the schedule is
\* exactly the courses accepted before it, in acceptance order.
C3_AbortStopsWalk ==
    lastOp = "ABORT" =>
        /\ pc = "idle"
        /\ trail[Len(trail)].what = "ABORT"
        /\ schedule = AcceptedRefs(trail)

C3_AbortAfterAcceptWitness ==
    /\ lastOp = "ABORT"
    /\ Len(schedule) = 1
    /\ trail[Len(trail)].ref.ci = 2
    /\ Len(courses) = 2

\* The (category, course number) pairs of the records of f are distinct.
StoreUnique(f) ==
    LET stored == load_courses_from_file(<<>>, f)
        refs == {Ref(ci, oi) : ci \in 1..MaxAdds + 1, oi \in 1..MaxAdds + 1}
        held == {r \in refs : r.ci <= Len(stored) /\ r.oi <= Len(stored[r.ci].offerings)}
    IN \A r1, r2 \in held : Key(stored, r1) = Key(stored, r2) => r1 = r2

\* C4 (as claimed): when the store holds one record per (category, course
\* number), no dialog of a run asks about a course that the run asked about
\* or skipped before.
C4_NoOfferingOfferedAgain ==
    StoreUnique(file) =>
        \A i, j \in 1..Len(trail) :
            (i < j /\ trail[j].what # "skipped")
                => Key(courses, trail[i].ref) # Key(courses, trail[j].ref)

\* C5 (as claimed): loading the file that add_course wrote into an empty
\* catalog gives the catalog add_course built: categories, courses and
\* intervals, in order.
C5_LoadReproducesCatalog ==
    fresh => load_courses_from_file(<<>>, file) = courses

\* C6: the schedule holds at most one course of each category, no dialog
\* asks about a course of a category the schedule already has a course of,
\* and a run starts from the empty schedule.
C6_OnePerCategory ==
    /\ \A i, j \in 1..Len(schedule) : schedule[i].ci = schedule[j].ci => i = j
    /\ pc = "ask" => \A i \in 1..Len(schedule) : schedule[i].ci # pos.ci
    /\ schedule = AcceptedRefs(trail)

C6_AcceptedWithAlternativeLeftWitness ==
    /\ lastOp = "ACCEPT"
    /\ Len(schedule) = 2
    /\ \E i \in 1..2 : schedule[i].oi < Len(courses[schedule[i].ci].offerings)
    /\ \E i \in 1..2 : schedule[i].oi > 1

\* C7: a run answered ACCEPT throughout, right after another such run over
\* the same file, ends with the same schedule: the same (category, course
\* number) pairs in the same order.
C7_SecondRunSameSchedule ==
    (pc = "idle" /\ inRow /\ prev # NoPrev) => ScheduleKeys(courses, schedule) = prev

C7_TwoRunsWitness ==
    /\ pc = "idle" /\ inRow /\ prev # NoPrev
    /\ runs = 2
    /\ Len(schedule) = 2

\* C8: an add_course that fails on a time literal leaves the catalog, the
\* file and the schedule as they were.
C8_FailedAddChangesNothing ==
    [][lastOp' = "ValueError"
         => (courses' = courses /\ file' = file /\ schedule' = schedule)]_vars

C8_FailedAddWitness ==
    /\ lastOp = "ValueError"
    /\ Len(courses) = 1
    /\ courses[1].category = "Math"
    /\ file # <<>>

\* C9 (as claimed): every interval of every course of the catalog has
\* start < end.
C9_EveryIntervalWellFormed ==
    \A ci \in 1..Len(courses) : \A oi \in 1..Len(courses[ci].offerings) :
        \A k \in 1..Len(courses[ci].offerings[oi].time_slots) :
            WellFormed(courses[ci].offerings[oi].time_slots[k])

\* The time-literal rule: H:MM and am or pm in either case, hour 1..12,
\* minute 0..59; 12am is hour 0, 12pm hour 12, other pm hours add 12.
LiteralRule(lit) ==
    IF /\ lit.sep = ":" /\ lit.suffix \in {"am", "pm", "AM", "PM"}
       /\ lit.hour \in 1..12 /\ lit.minute \in 0..59
      THEN LET pm == lit.suffix \in {"pm", "PM"}
               hour == IF lit.hour = 12 THEN (IF pm THEN 12 ELSE 0)
                       ELSE (IF pm THEN lit.hour + 12 ELSE lit.hour)
           IN Returned(hour * 60 + lit.minute)
      ELSE Raised

\* C10 (as claimed): convert_time_to_float returns what the time-literal
\* rule gives, and raises for every literal the rule does not admit.
C10_ConvertFollowsLiteralRule ==
    converted # Pending => converted = LiteralRule(literal)

====
